---------------------------- MODULE Spec2Model ----------------------------
(***************************************************************************)
(* setpci: parsing of the command tail into the operation list            *)
(* (parse_ops, parse_filter, parse_op, parse_register, parse_x32) and the *)
(* batch execution engine (execute, exec_op).                             *)
(*                                                                         *)
(* Representation.  TLC integers are 32-bit signed, so an `unsigned int'  *)
(* is a little-endian sequence of 4 bytes and an `unsigned long' is a     *)
(* little-endian sequence of ULb bytes (4 on ILP32 builds, 8 on LP64).    *)
(* A C string is a sequence of one-character strings.  Register-space     *)
(* addresses that passed the range check are plain integers.              *)
(***************************************************************************)
EXTENDS Integers, Sequences, FiniteSets, TLC

(***************************************************************************)
(* Bounds of the model.                                                    *)
(***************************************************************************)
MaxArgs == 3
MaxExecArgs == 5
MaxTermArgs == 4

(***************************************************************************)
(* Byte-sequence arithmetic.                                               *)
(***************************************************************************)
RECURSIVE AndN(_, _, _)
AndN(a, b, k) ==
  IF k = 0 THEN 0
  ELSE (a % 2) * (b % 2) + 2 * AndN(a \div 2, b \div 2, k - 1)

\* a & b on bytes
AndB(a, b) == AndN(a, b, 8)

\* zero of n bytes
ZeroW(n) == [i \in 1..n |-> 0]

\* all-ones of n bytes: ~0U (n = 4), ~0UL (n = ULb)
OnesW(n) == [i \in 1..n |-> 255]

\* x & y on words of equal length
AndW(x, y) == [i \in 1..Len(x) |-> AndB(x[i], y[i])]

\* x | y on words of equal length
OrW(x, y) == [i \in 1..Len(x) |-> x[i] + y[i] - AndB(x[i], y[i])]

\* ~x
NotW(x) == [i \in 1..Len(x) |-> 255 - x[i]]

\* conversion to a wider or narrower unsigned type: zero-extend or truncate
ConvW(x, n) == [i \in 1..n |-> IF i <= Len(x) THEN x[i] ELSE 0]

\* the word written big-endian in the source, e.g. 0x1000 = W32(0, 0, 16, 0)
W32(b3, b2, b1, b0) == <<b0, b1, b2, b3>>

\* carry into byte i of x + y
RECURSIVE CarryW(_, _, _)
CarryW(x, y, i) ==
  IF i = 1 THEN 0
  ELSE (x[i - 1] + y[i - 1] + CarryW(x, y, i - 1)) \div 256

\* x + y modulo 2^(8*Len(x))
AddW(x, y) == [i \in 1..Len(x) |-> (x[i] + y[i] + CarryW(x, y, i)) % 256]

\* x - y for x >= y... used only as ~0UL - lim, which never borrows
SubFromOnes(n, y) == [i \in 1..n |-> 255 - ConvW(y, n)[i]]

\* x < y on words of equal length (unsigned)
RECURSIVE LtFrom(_, _, _)
LtFrom(x, y, i) ==
  IF i = 0 THEN FALSE
  ELSE IF x[i] # y[i] THEN x[i] < y[i]
  ELSE LtFrom(x, y, i - 1)

LtW(x, y) == LtFrom(x, y, Len(x))

\* the usual arithmetic conversions bring both operands to the wider type
LtU(x, y) ==
  LET n == IF Len(x) > Len(y) THEN Len(x) ELSE Len(y)
  IN  LtW(ConvW(x, n), ConvW(y, n))

GtU(x, y) == LtU(y, x)

\* -x modulo 2^(8*Len(x))
NegW(x) == AddW(NotW(x), [i \in 1..Len(x) |-> IF i = 1 THEN 1 ELSE 0])

\* 16 * x + d, with the carry out of the top byte
Shl4(x, d) ==
  [w |-> [i \in 1..Len(x) |->
            ((x[i] % 16) * 16 + (IF i = 1 THEN d ELSE x[i - 1] \div 16))],
   ovf |-> x[Len(x)] \div 16 # 0]

\* a word whose value fits a TLC integer, as that integer (at most 3 bytes used)
ToInt(x) == x[1] + 256 * x[2] + 65536 * x[3]

\* an integer 0 .. 2^24-1 as an unsigned int
FromInt(v) == <<v % 256, (v \div 256) % 256, (v \div 65536) % 256, 0>>

\* TRUE iff the word is below 2^24 and so ToInt is exact
Small(x) == \A i \in 4..Len(x) : x[i] = 0


(***************************************************************************)
(* C strings: sequences of one-character strings.                          *)
(***************************************************************************)
Digits == <<"0", "1", "2", "3", "4", "5", "6", "7", "8", "9">>
LowerHex == <<"a", "b", "c", "d", "e", "f">>
UpperHex == <<"A", "B", "C", "D", "E", "F">>

\* position of ch in the sequence s, 0 if absent
RECURSIVE IndexFrom(_, _, _)
IndexFrom(s, ch, i) ==
  IF i > Len(s) THEN 0
  ELSE IF s[i] = ch THEN i
  ELSE IndexFrom(s, ch, i + 1)

\* strchr(s, ch): index of the first ch in s, 0 for NULL
strchr(s, ch) == IndexFrom(s, ch, 1)

\* the string starting at s + k
Tail_(s, k) == SubSeq(s, k + 1, Len(s))

\* the string s cut by writing a NUL at index k
Head_(s, k) == SubSeq(s, 1, k - 1)

\* value of a hexadecimal digit, -1 for any other character
HexVal(ch) ==
  IF strchr(Digits, ch) > 0 THEN strchr(Digits, ch) - 1
  ELSE IF strchr(LowerHex, ch) > 0 THEN strchr(LowerHex, ch) + 9
  ELSE IF strchr(UpperHex, ch) > 0 THEN strchr(UpperHex, ch) + 9
  ELSE -1

\* toupper on the letters the register names use
Letters ==
  <<"a", "b", "c", "d", "e", "f", "g", "h", "i", "j", "k", "l", "m",
    "n", "o", "p", "q", "r", "s", "t", "u", "v", "w", "x", "y", "z">>
Capitals ==
  <<"A", "B", "C", "D", "E", "F", "G", "H", "I", "J", "K", "L", "M",
    "N", "O", "P", "Q", "R", "S", "T", "U", "V", "W", "X", "Y", "Z">>

toupper(ch) == IF strchr(Letters, ch) > 0 THEN Capitals[strchr(Letters, ch)] ELSE ch

\* strcasecmp(a, b) == 0
strcaseeq(a, b) ==
  /\ Len(a) = Len(b)
  /\ \A i \in 1..Len(a) : toupper(a[i]) = toupper(b[i])

\* strncasecmp(a, b, n) == 0, for a string b of length n
strncaseeq(a, b, n) ==
  /\ Len(a) >= n
  /\ \A i \in 1..n : toupper(a[i]) = toupper(b[i])

(***************************************************************************)
(* strtoul(c, &stop, 16) on a build whose unsigned long has ulb bytes.     *)
(* The subject is an optional sign, an optional 0x prefix and hexadecimal  *)
(* digits; with no digit nothing is converted, the result is 0 and stop is *)
(* c.  Overflow gives ULONG_MAX with errno = ERANGE; a leading minus       *)
(* negates the converted value in the unsigned type.  (The inputs of the   *)
(* model hold no white space, which strtoul would skip.)                   *)
(***************************************************************************)
\* digits of s from index i on: accumulated value, overflow flag, stop index
RECURSIVE AccDigits(_, _, _, _)
AccDigits(s, i, acc, ovf) ==
  IF i > Len(s) \/ HexVal(s[i]) < 0 THEN [w |-> acc, ovf |-> ovf, stop |-> i]
  ELSE LET sh == Shl4(acc, HexVal(s[i]))
       IN  AccDigits(s, i + 1, sh.w, ovf \/ sh.ovf)

\* length of the optional sign
SignLen(c) == IF Len(c) >= 1 /\ c[1] \in {"+", "-"} THEN 1 ELSE 0

\* length of the optional 0x prefix after a sign of length sgn
PrefixLen(c, sgn) ==
  IF /\ Len(c) >= sgn + 3
     /\ c[sgn + 1] = "0"
     /\ c[sgn + 2] \in {"x", "X"}
     /\ HexVal(c[sgn + 3]) >= 0
  THEN 2 ELSE 0

\* the result, given the index of the first digit and the digits' conversion r
StrtoulResult(c, first, r, ulb) ==
  IF r.stop = first
  THEN [l |-> ZeroW(ulb), stop |-> c, errno |-> FALSE]
  ELSE IF r.ovf
  THEN [l |-> OnesW(ulb), stop |-> Tail_(c, r.stop - 1), errno |-> TRUE]
  ELSE [l |-> IF c[1] = "-" THEN NegW(r.w) ELSE r.w,
        stop |-> Tail_(c, r.stop - 1), errno |-> FALSE]

StrtoulFrom(c, first, ulb) ==
  StrtoulResult(c, first, AccDigits(c, first, ZeroW(ulb), FALSE), ulb)

StrtoulSigned(c, sgn, ulb) == StrtoulFrom(c, sgn + PrefixLen(c, sgn) + 1, ulb)

strtoul(c, ulb) == StrtoulSigned(c, SignLen(c), ulb)

(***************************************************************************)
(* parse_x32: ret is the return value; resp is what *resp receives (set    *)
(* only when ret >= 0); stop is what *stopp receives, and setstop tells    *)
(* whether it is assigned at all: only when characters are left over.      *)
(***************************************************************************)
X32None == [ret |-> -1, resp |-> ZeroW(4), stop |-> <<>>, setstop |-> FALSE]

\* parse_x32 after the call of strtoul, whose result is r
X32Result(r, ulb) ==
  IF r.errno THEN X32None
  ELSE IF ConvW(AndW(r.l, ConvW(OnesW(4), ulb)), ulb) # r.l THEN X32None
  ELSE IF r.stop # <<>>
  THEN [ret |-> 0, resp |-> ConvW(r.l, 4), stop |-> r.stop, setstop |-> TRUE]
  ELSE [ret |-> 1, resp |-> ConvW(r.l, 4), stop |-> <<>>, setstop |-> FALSE]

parse_x32(c, ulb) == IF c = <<>> THEN X32None ELSE X32Result(strtoul(c, ulb), ulb)

\* strtoul found no digit to convert.  The C standard leaves errno alone
\* then (as StrtoulResult does); POSIX lets the library set EINVAL, and
\* parse_x32 then returns -1.
NoConversion(c, ulb) == c # <<>> /\ strtoul(c, ulb).stop = c

\* what parse_x32(c, ...) can return on the C libraries the build may use.
\* The two outcomes differ only for the caller that tells -1 from 0, the
\* loop over the values in parse_op.
X32Outcomes(c, ulb) ==
  IF NoConversion(c, ulb) THEN {parse_x32(c, ulb), X32None} ELSE {parse_x32(c, ulb)}

(***************************************************************************)
(* The register name table.  The rows kept are the ones the inputs of the  *)
(* model can name; every row has the cap, offset and width of the source.  *)
(* 65537 = 0x10001, 65552 = 0x10010, 131073 = 0x20001.                     *)
(***************************************************************************)
pci_reg_names ==
  <<
    [cap |-> 0, offset |-> 0, width |-> 2, name |-> <<"V", "E", "N", "D", "O", "R", "_", "I", "D">>],
    [cap |-> 0, offset |-> 4, width |-> 2, name |-> <<"C", "O", "M", "M", "A", "N", "D">>],
    [cap |-> 0, offset |-> 12, width |-> 1, name |-> <<"C", "A", "C", "H", "E", "_", "L", "I", "N", "E", "_", "S", "I", "Z", "E">>],
    [cap |-> 0, offset |-> 16, width |-> 4, name |-> <<"B", "A", "S", "E", "_", "A", "D", "D", "R", "E", "S", "S", "_", "0">>],
    [cap |-> 65537, offset |-> 0, width |-> 0, name |-> <<"C", "A", "P", "_", "P", "M">>],
    [cap |-> 65552, offset |-> 0, width |-> 0, name |-> <<"C", "A", "P", "_", "E", "X", "P">>],
    [cap |-> 131073, offset |-> 0, width |-> 0, name |-> <<"E", "C", "A", "P", "_", "A", "E", "R">>]
  >>

\* parse_reg_name: index of the first row whose name matches, 0 for NULL
RECURSIVE RegNameFrom(_, _)
RegNameFrom(name, i) ==
  IF i > Len(pci_reg_names) THEN 0
  ELSE IF strcaseeq(pci_reg_names[i].name, name) THEN i
  ELSE RegNameFrom(name, i + 1)

parse_reg_name(name) == RegNameFrom(name, 1)

\* max_values[width]
max_values(width) ==
  CASE width = 1 -> W32(0, 0, 0, 255)
    [] width = 2 -> W32(0, 0, 255, 255)
    [] width = 4 -> W32(255, 255, 255, 255)
    [] OTHER -> W32(0, 0, 0, 0)

\* the size of the register space, 0x1000
SpaceSize == 4096

\* base of the tagged capability numbers: 0x10000 normal, 0x20000 extended
CapNormal == 65536
CapExtended == 131072

(***************************************************************************)
(* parse_register(op, base): the fields of op it leaves behind, or the     *)
(* usage error.  width is op->width as the width suffix set it.            *)
(***************************************************************************)
UnknownRegister(width) == [ok |-> FALSE, cap |-> 0, addr |-> ZeroW(4), width |-> width]

\* the CAP<number> and ECAP<number> branches: c is parse_x32 of the number,
\* limit the bound on it and tag what is added to it
NumberedCap(width, c, limit, tag) ==
  IF c.ret > 0 /\ LtW(c.resp, FromInt(limit))
  THEN [ok |-> TRUE, cap |-> ToInt(c.resp) + tag, addr |-> ZeroW(4), width |-> width]
  ELSE UnknownRegister(width)

\* the row r of the name table
NamedRegister(width, r) ==
  [ok |-> TRUE, cap |-> r.cap, addr |-> FromInt(r.offset),
   width |-> IF r.width # 0 /\ width = 0 THEN r.width ELSE width]

\* parse_register after its first call of parse_x32, whose result is x
RegisterAfterX32(width, base, x, ulb) ==
  IF x.ret > 0
  THEN [ok |-> TRUE, cap |-> 0, addr |-> x.resp, width |-> width]
  ELSE IF parse_reg_name(base) # 0
  THEN NamedRegister(width, pci_reg_names[parse_reg_name(base)])
  ELSE IF strncaseeq(base, <<"C", "A", "P">>, 3)
  THEN NumberedCap(width, parse_x32(Tail_(base, 3), ulb), 256, CapNormal)
  ELSE IF strncaseeq(base, <<"E", "C", "A", "P">>, 4)
  THEN NumberedCap(width, parse_x32(Tail_(base, 4), ulb), 4096, CapExtended)
  ELSE UnknownRegister(width)

parse_register(width, base, ulb) ==
  RegisterAfterX32(width, base, parse_x32(base, ulb), ulb)

(***************************************************************************)
(* parse_op.  A pointer into the argument is the string it points to; the  *)
(* local f is a record: st = "uninit" before anything was stored in it,    *)
(* "ok" when it points to the string s, "wild" when an indeterminate value *)
(* turned out to be no readable address.                                   *)
(***************************************************************************)
Uninit == [st |-> "uninit", s |-> <<>>]
PtrTo(str) == [st |-> "ok", s |-> str]
Wild == [st |-> "wild", s |-> <<>>]

\* What reading the uninitialized f can yield: an unreadable address, or a
\* pointer to any bytes: an empty string, a string starting with some other
\* character, a string starting with ':'.
IndeterminateF ==
  {Wild, PtrTo(<<>>), PtrTo(<<"x">>), PtrTo(<<":", "0", "f">>)}

\* OutOfWindow without the test: every literal passes
OutOfWindowNever(ll, lim, ulb) == FALSE

\* ll > lim && ll < ~0UL - lim
OutOfWindow(ll, lim, ulb) ==
  GtU(ll, lim) /\ LtW(ConvW(ll, ulb), SubFromOnes(ulb, lim))

\* Premasked without the &=: the value is stored as parsed
PremaskedNot(value, mask) == value

\* op->values[j].value &= ll
Premasked(value, mask) == AndW(value, mask)

\* the outcomes of parse_op that end the run
Usage(msg) == [res |-> "usage", msg |-> msg, values |-> <<>>]
Die(msg) == [res |-> "die", msg |-> msg, values |-> <<>>]
Crash == [res |-> "crash", msg |-> "invalid read", values |-> <<>>]

\* the element of the value list that `value' points to, and what follows it
ElemOf(value, e) == IF e > 0 THEN Head_(value, e) ELSE value
RestOf(value, e) == IF e > 0 THEN Tail_(value, e) ELSE <<>>

\* the values f can have after parse_x32(value, &f, &ll) returned x
FAfter(x, f) ==
  IF x.setstop THEN {PtrTo(x.stop)}
  ELSE IF f.st = "uninit" THEN IndeterminateF
  ELSE {f}

(***************************************************************************)
(* The loop over the n values, from iteration j with `value' pointing to   *)
(* the rest of the list.  Each stored pair carries two history fields the  *)
(* code does not keep: lit, the value literal as parsed, and own, whether  *)
(* the element itself holds a ':' part.  The result is a set because the   *)
(* read of an uninitialized f has more than one outcome.                   *)
(***************************************************************************)
RECURSIVE ParseValues(_, _, _, _, _, _, _)

\* the pair with the mask m (the result of parse_x32(f+1, NULL, &ll))
MaskedPair(rest, j, n, g, width, ulb, acc, x, m) ==
  IF m.ret <= 0 THEN {Usage("Invalid mask")}
  ELSE IF OutOfWindow(m.resp, max_values(width), ulb) THEN {Usage("Mask is out of range")}
  ELSE ParseValues(rest, j + 1, n, g, width, ulb,
         Append(acc, [value |-> Premasked(x.resp, m.resp), mask |-> m.resp,
                      lit |-> x.resp, own |-> x.setstop]))

\* one iteration after parse_x32 returned x >= 0, with f being g
PairWithF(rest, j, n, g, width, ulb, acc, x) ==
  IF g.st = "wild" THEN {Crash}
  ELSE IF g.s # <<>> /\ g.s[1] # ":" THEN {Usage("Invalid value")}
  ELSE IF OutOfWindow(x.resp, max_values(width), ulb) THEN {Usage("Value is out of range")}
  ELSE IF g.s # <<>> /\ g.s[1] = ":"
  THEN MaskedPair(rest, j, n, g, width, ulb, acc, x, parse_x32(Tail_(g.s, 1), ulb))
  ELSE ParseValues(rest, j + 1, n, g, width, ulb,
         Append(acc, [value |-> x.resp, mask |-> OnesW(4),
                      lit |-> x.resp, own |-> FALSE]))

\* one iteration after parse_x32(value, &f, &ll) returned x
PairAfterX32(rest, j, n, f, width, ulb, acc, x) ==
  IF x.ret < 0 THEN {Usage("Invalid value")}
  ELSE UNION {PairWithF(rest, j, n, g, width, ulb, acc, x) : g \in FAfter(x, f)}

ParseValues(value, j, n, f, width, ulb, acc) ==
  IF j = n THEN {[res |-> "ok", msg |-> "", values |-> acc]}
  ELSE UNION {PairAfterX32(RestOf(value, strchr(value, ",")), j, n, f, width, ulb, acc, x) :
                x \in X32Outcomes(ElemOf(value, strchr(value, ",")), ulb)}

\* number of ch in s
RECURSIVE CountCh(_, _)
CountCh(s, ch) ==
  IF s = <<>> THEN 0
  ELSE (IF Head(s) = ch THEN 1 ELSE 0) + CountCh(Tail(s), ch)

\* the width suffix: 0 stands for a usage error
WidthOf(width) ==
  IF Len(width) # 1 THEN 0
  ELSE CASE width[1] \in {"B", "b"} -> 1
         [] width[1] \in {"W", "w"} -> 2
         [] width[1] \in {"L", "l"} -> 4
         [] OTHER -> 0

\* OutOfRange counting one access whatever the number of values
OutOfRangeOneAccess(addr, width, n) ==
  \/ ~ LtW(addr, FromInt(SpaceSize))
  \/ ToInt(addr) + width > SpaceSize

\* op->addr >= 0x1000 || op->addr + op->width*(n ? n : 1) > 0x1000
OutOfRange(addr, width, n) ==
  \/ ~ LtW(addr, FromInt(SpaceSize))
  \/ ToInt(addr) + width * (IF n # 0 THEN n ELSE 1) > SpaceSize

\* Unaligned with the mask op->width in place of op->width - 1
UnalignedByWidth(addr, width) == AndW(addr, FromInt(width)) # ZeroW(4)

\* op->addr & (op->width - 1)
Unaligned(addr, width) == AndW(addr, FromInt(width - 1)) # ZeroW(4)

(***************************************************************************)
(* parse_op(c, selected_devices): the set of its outcomes.  An outcome     *)
(* with res = "ok" carries the operation appended to the list.  The        *)
(* argument is split at the first '=', then the base part at the first     *)
(* '.', then what is left at the first '+'; has tells which parts exist.   *)
(***************************************************************************)
Fail(r) == [res |-> r.res, msg |-> r.msg, op |-> <<>>]

\* *last_op = op, with the values v the loop stored
Appended(selected_devices, reg, addr, n, v) ==
  IF v.res # "ok" THEN Fail(v)
  ELSE [res |-> "ok", msg |-> "",
        op |-> <<[dev_vector |-> selected_devices, cap |-> reg.cap,
                  addr |-> ToInt(addr), width |-> reg.width, num_values |-> n,
                  values |-> v.values]>>]

\* from "Check range" on, with op->addr being addr
OpChecked(selected_devices, reg, addr, value, n, ulb) ==
  IF OutOfRange(addr, reg.width, n) THEN {Fail(Die("Register number out of range!"))}
  ELSE IF Unaligned(addr, reg.width) THEN {Fail(Die("Unaligned register address!"))}
  ELSE {Appended(selected_devices, reg, addr, n, v) :
          v \in ParseValues(value, 0, n, Uninit, reg.width, ulb, <<>>)}

\* "Add offset", with off the result of parse_x32(offset, NULL, &off)
OpWithOffset(selected_devices, reg, off, value, n, ulb) ==
  IF off.ret <= 0 \/ ~ LtW(off.resp, FromInt(SpaceSize))
  THEN {Fail(Die("Invalid offset"))}
  ELSE OpChecked(selected_devices, reg, AddW(reg.addr, off.resp), value, n, ulb)

\* after parse_register, whose result is reg
OpAfterRegister(selected_devices, reg, hasoff, offset, value, n, ulb) ==
  IF ~ reg.ok THEN {Fail(Usage("Unknown register"))}
  ELSE IF reg.width = 0 THEN {Fail(Usage("Missing width"))}
  ELSE IF hasoff
  THEN OpWithOffset(selected_devices, reg, parse_x32(offset, ulb), value, n, ulb)
  ELSE OpChecked(selected_devices, reg, reg.addr, value, n, ulb)

\* after the split at '+' (index oi in b1, 0 if there is none)
OpAfterWidth(selected_devices, b1, oi, w0, value, n, ulb) ==
  OpAfterRegister(selected_devices,
                  parse_register(w0, IF oi > 0 THEN Head_(b1, oi) ELSE b1, ulb),
                  oi > 0, IF oi > 0 THEN Tail_(b1, oi) ELSE <<>>, value, n, ulb)

\* after the split at '.' (index wi in b0, 0 if there is none)
OpAfterValue(selected_devices, b0, wi, value, n, ulb) ==
  IF wi > 0 /\ WidthOf(Tail_(b0, wi)) = 0 THEN {Fail(Usage("Invalid width"))}
  ELSE OpAfterWidth(selected_devices, IF wi > 0 THEN Head_(b0, wi) ELSE b0,
                    strchr(IF wi > 0 THEN Head_(b0, wi) ELSE b0, "+"),
                    IF wi > 0 THEN WidthOf(Tail_(b0, wi)) ELSE 0, value, n, ulb)

\* after the split at '=' (index vi in c, 0 if there is none)
OpSplit(selected_devices, c, vi, ulb) ==
  IF vi > 0 /\ Tail_(c, vi) = <<>> THEN {Fail(Usage("Missing value"))}
  ELSE OpAfterValue(selected_devices, IF vi > 0 THEN Head_(c, vi) ELSE c,
                    strchr(IF vi > 0 THEN Head_(c, vi) ELSE c, "."),
                    IF vi > 0 THEN Tail_(c, vi) ELSE <<>>,
                    IF vi > 0 THEN 1 + CountCh(Tail_(c, vi), ",") ELSE 0, ulb)

parse_op(c, selected_devices, ulb) == OpSplit(selected_devices, c, strchr(c, "="), ulb)

(***************************************************************************)
(* The access layer, which setpci only calls: the device list, the filter  *)
(* functions, the capability locator and the register space.               *)
(***************************************************************************)
\* pacc->devices, in list order; a device handle is its index in this list
DevList ==
  <<[bus |-> 0, slot |-> 1, vendor |-> 1, device |-> 1],
    [bus |-> 0, slot |-> 2, vendor |-> 2, device |-> 1],
    [bus |-> 1, slot |-> 1, vendor |-> 2, device |-> 2]>>

Devs == 1..Len(DevList)

\* pci_find_cap(dev, id, type): the capability's address, -1 for NULL.
\* Device 1 has PM at 0x40 and AER at 0x100, device 2 only AER at 0x100,
\* device 3 has PM at 0x48 and AER at 0x200.  The locator's contract names
\* no alignment of what it returns: PCI Express is at 0x61 on device 1 and
\* at 0x62 on device 2.
pci_find_cap(dev, cap) ==
  CASE dev = 1 /\ cap = CapNormal + 1 -> 64
    [] dev = 1 /\ cap = CapNormal + 16 -> 97
    [] dev = 2 /\ cap = CapNormal + 16 -> 98
    [] dev = 1 /\ cap = CapExtended + 1 -> 256
    [] dev = 2 /\ cap = CapExtended + 1 -> 256
    [] dev = 3 /\ cap = CapNormal + 1 -> 72
    [] dev = 3 /\ cap = CapExtended + 1 -> 512
    [] OTHER -> -1

\* the register space before the run: byte 4 of device 1 is 0xA5
InitByte(dev, a) == IF dev = 1 /\ a = 4 THEN 165 ELSE (a + 17 * dev) % 256

\* one byte of the register space; m holds the bytes written so far
ByteAt(m, dev, a) == IF a \in DOMAIN m[dev] THEN m[dev][a] ELSE InitByte(dev, a)

\* pci_read_byte / pci_read_word / pci_read_long: little-endian, as unsigned int
pci_read(m, dev, a, width) ==
  [i \in 1..4 |-> IF i <= width THEN ByteAt(m, dev, a + i - 1) ELSE 0]

\* pci_write_byte / pci_write_word / pci_write_long: data is the argument
\* already converted to the parameter's type (width bytes)
pci_write(m, dev, a, width, data) ==
  [m EXCEPT ![dev] =
     [b \in (DOMAIN m[dev]) \cup (a..(a + width - 1)) |->
        IF b \in a..(a + width - 1) THEN data[b - a + 1] ELSE m[dev][b]]]

\* UnalignedAccess without the test
UnalignedAccessNever(pos, len) == FALSE

\* the read and write primitives end the run ("Unaligned read", "Unaligned
\* write") when the position is no multiple of the length
UnalignedAccess(pos, len) == pos % len # 0

\* pci_filter_init: every field matches anything
pci_filter_init == [bus |-> -1, slot |-> -1, vendor |-> -1, device |-> -1]

\* a filter field: empty or "*" leaves the field alone (-1 here), one
\* hexadecimal digit sets it, anything else is an error (-2 here)
FilterField(str) ==
  IF str = <<>> \/ str = <<"*">> THEN -1
  ELSE IF Len(str) = 1 /\ HexVal(str[1]) >= 0 THEN HexVal(str[1])
  ELSE -2

\* pci_filter_parse_slot(filter, d): "[bus]:[slot]" or "slot"
pci_filter_parse_slot(filter, d) ==
  LET ci == strchr(d, ":")
      b == IF ci > 0 THEN FilterField(Head_(d, ci)) ELSE -1
      sl == IF ci > 0 THEN FilterField(Tail_(d, ci)) ELSE FilterField(d)
  IN  IF b = -2 \/ sl = -2 THEN [err |-> TRUE, filter |-> filter]
      ELSE [err |-> FALSE,
            filter |-> [filter EXCEPT !.bus = IF b >= 0 THEN b ELSE @,
                                      !.slot = IF sl >= 0 THEN sl ELSE @]]

\* pci_filter_parse_id(filter, d): "[vendor]:[device]"
pci_filter_parse_id(filter, d) ==
  LET ci == strchr(d, ":")
      v == IF ci > 0 THEN FilterField(Head_(d, ci)) ELSE -2
      dv == IF ci > 0 THEN FilterField(Tail_(d, ci)) ELSE -2
  IN  IF v = -2 \/ dv = -2 THEN [err |-> TRUE, filter |-> filter]
      ELSE [err |-> FALSE,
            filter |-> [filter EXCEPT !.vendor = IF v >= 0 THEN v ELSE @,
                                      !.device = IF dv >= 0 THEN dv ELSE @]]

\* pci_filter_match(filt, z)
pci_filter_match(filt, z) ==
  /\ filt.bus < 0 \/ filt.bus = DevList[z].bus
  /\ filt.slot < 0 \/ filt.slot = DevList[z].slot
  /\ filt.vendor < 0 \/ filt.vendor = DevList[z].vendor
  /\ filt.device < 0 \/ filt.device = DevList[z].device

(***************************************************************************)
(* select_devices(filt): the vector without its NULL terminator.           *)
(***************************************************************************)
\* the first loop of select_devices: cnt, the number of array slots allocated
RECURSIVE CountFrom(_, _)
CountFrom(filt, z) ==
  IF z > Len(DevList) THEN 1
  ELSE (IF pci_filter_match(filt, z) THEN 1 ELSE 0) + CountFrom(filt, z + 1)

\* SelectFrom storing each match in front of the ones stored before
RECURSIVE SelectFromReversed(_, _)
SelectFromReversed(filt, z) ==
  IF z > Len(DevList) THEN <<>>
  ELSE SelectFromReversed(filt, z + 1) \o (IF pci_filter_match(filt, z) THEN <<z>> ELSE <<>>)

RECURSIVE SelectFrom(_, _)
SelectFrom(filt, z) ==
  IF z > Len(DevList) THEN <<>>
  ELSE (IF pci_filter_match(filt, z) THEN <<z>> ELSE <<>>) \o SelectFrom(filt, z + 1)

select_devices(filt) == SelectFrom(filt, 1)

(***************************************************************************)
(* The argument words the model draws the command tail from.               *)
(***************************************************************************)
FilterTokens ==
  {<<"-", "s", "0", ":">>,
   <<"-", "d", "2", ":">>,
   <<"-", "s", "=", ":", "1">>,
   <<"-", "s", "9", ":">>,
   <<"-", "s">>,
   <<"-", "x">>,
   <<"-", "s", "z", "z">>,
   <<"1", ":">>}

OpTokens ==
  {<<"0", "4", ".", "B", "=", "0", "2", ":", "0", "f">>,
   <<"C", "O", "M", "M", "A", "N", "D", "=", "0", "0", "0", "6">>,
   <<"C", "A", "P", "_", "P", "M", "+", "4", ".", "W">>,
   <<"1", "0", "0", "0", ".", "B">>,
   <<"E", "C", "A", "P", "_", "A", "E", "R", "+", "e", "f", "c", ".", "L", "=", "1", ":", "f", "f", ",", "2", ":", "f", "f">>,
   <<"0", "1", ".", "W">>,
   <<"0", "4">>,
   <<"1", "0", ".", "L">>,
   <<"f", "f", "e", ".", "B", "=", "5", ":", "3", ",", "2", ":", "c">>,
   <<"f", "f", "f", ".", "B", "=", "1", ":", "3", ",", "2", ":", "c">>,
   <<"F", "O", "O", ".", "B">>,
   <<"f", "f", "f", "f", "f", "f", "f", "e", "+", "2", ".", "w">>,
   <<"0", "4", ".", "B", "=", "1", ":", "0", "f", ",", "2">>,
   <<"0", "4", ".", "B", "=", ":", "0", "f">>,
   <<"0", "4", ".", "B", "=", "f", "f", "f", "f", "f", "f", "0", "2", ":", "0", "f">>,
   <<"0", "4", ".", "B", "=", "1", "0", "0">>,
   <<"0", "4", ".", "B", "=">>,
   <<"0", "4", ".", "x">>,
   <<"C", "A", "P", "5", ".", "B">>,
   <<"0", "6", ".", "W", "=", "1", "2", "3", "4", ":", "f", "f", "0", "0">>,
   <<"1", "0", ".", "L", "=", "d", "e", "a", "d", "b", "e", "e", "f", ":", "f", "f", "f", "f", "0", "0", "0", "0">>,
   <<"0", "4", ".", "B", "=", "1", ":", "f", "f", "f", "f", "f", "f", "0", "f">>}

AllTokens == FilterTokens \cup OpTokens

ExecTokens ==
  {<<"-", "s", "0", ":">>,
   <<"-", "d", "2", ":">>,
   <<"0", "4", ".", "B", "=", "0", "2", ":", "0", "f">>,
   <<"C", "A", "P", "_", "P", "M", "+", "4", ".", "W">>,
   <<"1", "0", ".", "L">>,
   <<"E", "C", "A", "P", "_", "A", "E", "R", "+", "e", "f", "c", ".", "L", "=", "1", ":", "f", "f", ",", "2", ":", "f", "f">>}


\* the words of the runs with filters that select no device
EmptyTokens ==
  {<<"-", "s", "9", ":">>,
   <<"-", "s", "0", ":">>,
   <<"1", "0", ".", "L">>,
   <<"C", "A", "P", "_", "P", "M", "+", "4", ".", "W">>,
   <<"B", "A", "S", "E", "_", "A", "D", "D", "R", "E", "S", "S", "_", "0", ".", "L", "=", "1", "0", "0", "0", "0", "0", "0", "0">>}

\* the words of the runs that show execute coming to its end
TermTokens ==
  {<<"-", "s", "9", ":">>,
   <<"-", "s", "0", ":">>,
   <<"1", "0", ".", "L">>}

\* the words of the runs on capabilities at unaligned addresses
AlignTokens ==
  {<<"-", "s", "0", ":">>,
   <<"-", "d", "2", ":">>,
   <<"C", "A", "P", "_", "E", "X", "P", ".", "B">>,
   <<"C", "A", "P", "_", "E", "X", "P", ".", "W">>,
   <<"C", "A", "P", "_", "E", "X", "P", "+", "2", ".", "W", "=", "1", ":", "f", "f">>,
   <<"C", "A", "P", "_", "E", "X", "P", ".", "L", "=", "5", ":", "f", "f", "f", "f", "f", "f", "f", "f">>}

(***************************************************************************)
(* State.                                                                  *)
(***************************************************************************)
VARIABLES
  pc,               \* where main is: "options", "parse", "exec", "done", "exit"
  ulb,              \* sizeof(unsigned long) of the build: 4 or 8
  demo_mode,        \* -D
  force,            \* -f
  argi,             \* parse_ops: i, the words of the command tail consumed so far
  state,            \* parse_ops: STATE_INIT, STATE_GOT_FILTER, STATE_GOT_OP
  filter,           \* parse_ops: struct pci_filter filter
  vectors,          \* the device vectors select_devices allocated, by address
  selected_devices, \* parse_ops: index into vectors, 0 for NULL
  ops,              \* the list from first_op, in list order
  writeable,        \* pacc->writeable
  cur,              \* execute: the exec_op call to make next
  mem,              \* the register space: per device, the bytes written
  calls,            \* history: the exec_op calls made, in order
  log,              \* reads, computed values and writes, in the order issued
  err,              \* how the run was ended: by usage(), die() or a fault
  warnings,         \* number of "No devices selected" warnings
  run,              \* history: the filter words since the last register word
  vecRun,           \* history: for each vector, the value of run when it was built
  opWords           \* history: for each operation of the list, the word it was parsed from

vars ==
  <<pc, ulb, demo_mode, force, argi, state, filter, vectors, selected_devices,
    ops, writeable, cur, mem, calls, log, err, warnings, run, vecRun, opWords>>

parseVars ==
  <<argi, state, filter, vectors, selected_devices, ops, warnings, run, vecRun, opWords>>
execVars == <<cur, mem, calls, log>>

(***************************************************************************)
(* exec_op(op, dev) for the operation at index oi of the list: the events  *)
(* it adds to the log, the register space it leaves and how it ends.       *)
(* An event is a read (val: the unsigned int read), a calc (val: x, the    *)
(* value computed for writing) or a write (val: the bytes handed to the    *)
(* write primitive); k is the index of the value, 0 for a pure read.       *)
(***************************************************************************)
Event(kind, dev, oi, k, addr, width, val) ==
  [kind |-> kind, dev |-> dev, op |-> oi, k |-> k, addr |-> addr,
   width |-> width, val |-> val]

\* x = (y & ~op->values[i].mask) | op->values[i].value
MaskedBits(y, v) == OrW(AndW(y, NotW(v.mask)), v.value)

\* (op->values[i].mask & max_values[width]) == max_values[width]
CoversWidth(mask, width) == AndW(mask, max_values(width)) = max_values(width)

\* AddrOutOfRange testing the first byte of the access only
AddrOutOfRangeFirstByte(addr, width) == addr > SpaceSize

\* addr + width > 0x1000
AddrOutOfRange(addr, width) == addr + width > SpaceSize

\* WriteIssued without the test of demo_mode
WriteAlways(demo) == TRUE

\* if (!demo_mode) the write is issued
WriteIssued(demo) == ~ demo

\* NextAddr without the increment: every pair at the first address
NextAddrSame(addr, width) == addr

\* addr += width
NextAddr(addr, width) == addr + width

RECURSIVE ExecValues(_, _, _, _, _, _, _, _)
ExecValues(o, oi, dev, i, addr, m, lg, demo) ==
  IF i >= o.num_values THEN [res |-> "ok", msg |-> "", mem |-> m, log |-> lg]
  ELSE IF AddrOutOfRange(addr, o.width)
  THEN [res |-> "die", msg |-> "Out of range", mem |-> m, log |-> lg]
  ELSE
    LET v == o.values[i + 1]
        full == CoversWidth(v.mask, o.width)
        y == pci_read(m, dev, addr, o.width)
        x == IF full THEN v.value ELSE MaskedBits(y, v)
        lg1 == IF full THEN lg
               ELSE Append(lg, Event("read", dev, oi, i + 1, addr, o.width, y))
        lg2 == Append(lg1, Event("calc", dev, oi, i + 1, addr, o.width, x))
        data == ConvW(x, o.width)
        bad == UnalignedAccess(addr, o.width)
        lg3 == IF WriteIssued(demo)
               THEN Append(lg2, Event("write", dev, oi, i + 1, addr, o.width, data))
               ELSE lg2
        m3 == IF WriteIssued(demo) THEN pci_write(m, dev, addr, o.width, data) ELSE m
    IN  IF ~ full /\ bad
        THEN [res |-> "die", msg |-> "Unaligned read", mem |-> m, log |-> lg]
        ELSE IF WriteIssued(demo) /\ bad
        THEN [res |-> "die", msg |-> "Unaligned write", mem |-> m, log |-> lg2]
        ELSE ExecValues(o, oi, dev, i + 1, NextAddr(addr, o.width), m3, lg3, demo)

exec_op(o, oi, dev, m, lg, demo) ==
  LET base == IF o.cap # 0 THEN pci_find_cap(dev, o.cap) ELSE 0
      addr == base + o.addr
  IN  IF base < 0
      THEN [res |-> "die", msg |-> "Capability not found", mem |-> m, log |-> lg]
      ELSE IF o.num_values # 0
      THEN ExecValues(o, oi, dev, 0, addr, m, lg, demo)
      ELSE IF AddrOutOfRange(addr, o.width)
      THEN [res |-> "die", msg |-> "Out of range", mem |-> m, log |-> lg]
      ELSE IF UnalignedAccess(addr, o.width)
      THEN [res |-> "die", msg |-> "Unaligned read", mem |-> m, log |-> lg]
      ELSE [res |-> "ok", msg |-> "", mem |-> m,
            log |-> Append(lg, Event("read", dev, oi, 0, addr, o.width,
                                     pci_read(m, dev, addr, o.width)))]

(***************************************************************************)
(* execute: the loops around exec_op.  A position is the group head op,    *)
(* the index pdev into the group's vector and the operation oops; the      *)
(* position after the last call has op beyond the list.                    *)
(***************************************************************************)
Finished(l) == [op |-> Len(l) + 1, pdev |-> 0, oops |-> 0]

\* SkipGroup stepping over one operation only: if (op) op = op->next
SkipGroupOne(l, op, vec) == op + 1

\* while (op && op->dev_vector == vec) op = op->next
RECURSIVE SkipGroup(_, _, _)
SkipGroup(l, op, vec) ==
  IF op <= Len(l) /\ l[op].dev_vector = vec THEN SkipGroup(l, op + 1, vec) ELSE op

\* EnterGroup where an empty vector ends execute
EnterGroupStops(l, vs, op) ==
  IF op > Len(l) \/ vs[l[op].dev_vector] = <<>> THEN Finished(l)
  ELSE [op |-> op, pdev |-> 1, oops |-> op]

\* the top of the outer loop with `op': the first exec_op call from there on
RECURSIVE EnterGroup(_, _, _)
EnterGroup(l, vs, op) ==
  IF op > Len(l) THEN Finished(l)
  ELSE IF vs[l[op].dev_vector] # <<>> THEN [op |-> op, pdev |-> 1, oops |-> op]
  ELSE EnterGroup(l, vs, SkipGroup(l, op, l[op].dev_vector))

\* NextCall with the loops exchanged: operations outside, devices inside
NextCallOpsOuter(l, vs, c) ==
  LET vec == l[c.op].dev_vector
  IN  IF c.pdev + 1 <= Len(vs[vec])
      THEN [c EXCEPT !.pdev = c.pdev + 1]
      ELSE IF c.oops + 1 <= Len(l) /\ l[c.oops + 1].dev_vector = vec
      THEN [op |-> c.op, pdev |-> 1, oops |-> c.oops + 1]
      ELSE EnterGroup(l, vs, SkipGroup(l, c.op, vec))

\* the call after exec_op(oops, dev) returned
NextCall(l, vs, c) ==
  LET vec == l[c.op].dev_vector
  IN  IF c.oops + 1 <= Len(l) /\ l[c.oops + 1].dev_vector = vec
      THEN [c EXCEPT !.oops = c.oops + 1]
      ELSE IF c.pdev + 1 <= Len(vs[vec])
      THEN [op |-> c.op, pdev |-> c.pdev + 1, oops |-> c.op]
      ELSE EnterGroup(l, vs, SkipGroup(l, c.op, vec))


(***************************************************************************)
(* Init: main before parse_options, on one of the given builds.            *)
(***************************************************************************)
NoError == [how |-> "", msg |-> "", at |-> "", word |-> <<>>]

\* the register space with nothing written yet
InitMem == [d \in Devs |-> <<>>]

InitOn(builds) ==
  /\ pc = "options"
  /\ ulb \in builds
  /\ demo_mode = FALSE
  /\ force = FALSE
  /\ argi = 0
  /\ state = "INIT"
  /\ filter = pci_filter_init
  /\ vectors = <<>>
  /\ selected_devices = 0
  /\ ops = <<>>
  /\ writeable = FALSE
  /\ cur = Finished(<<>>)
  /\ mem = InitMem
  /\ calls = <<>>
  /\ log = <<>>
  /\ err = NoError
  /\ warnings = 0
  /\ run = <<>>
  /\ vecRun = <<>>
  /\ opWords = <<>>

\* Exit where usage() and die() report and return to the caller
ExitReturns(how, msg, word) ==
  /\ pc' = pc
  /\ err' = [how |-> how, msg |-> msg, at |-> pc, word |-> word]

\* usage(), die() or a fault while main is at pc: the process ends.  word is
\* the argument word being parsed, empty if there is none.
Exit(how, msg, word) ==
  /\ pc' = "exit"
  /\ err' = [how |-> how, msg |-> msg, at |-> pc, word |-> word]

\* parse_options, pci_init, pci_scan_bus: the flags -D and -f, each drawn
\* from the given set
ParseOptions(flags) ==
  /\ pc = "options"
  /\ demo_mode' \in flags
  /\ force' \in flags
  /\ pc' = "parse"
  /\ UNCHANGED <<ulb, writeable, err>>
  /\ UNCHANGED parseVars
  /\ UNCHANGED execVars

(***************************************************************************)
(* parse_filter(argc, argv, i, filter) for the word c; next is the set of  *)
(* words argv[i] can be when c carries no argument of its own, and more    *)
(* tells whether the model may consume a second word.  The result: how it  *)
(* ends, the filter, and the words consumed.                               *)
(***************************************************************************)
FilterArg(c, d, filt, words) ==
  LET r == IF c[2] = "s" THEN pci_filter_parse_slot(filt, d)
           ELSE pci_filter_parse_id(filt, d)
  IN  IF r.err THEN [res |-> "die", msg |-> "-s/-d: bad filter", filter |-> filt,
                     words |-> words, opt |-> c[2], arg |-> d]
      ELSE [res |-> "ok", msg |-> "", filter |-> r.filter, words |-> words,
            opt |-> c[2], arg |-> d]

parse_filter(c, filt, next, more) ==
  LET bad == [res |-> "usage", msg |-> "", filter |-> filt, words |-> 1,
              opt |-> "", arg |-> <<>>]
  IN  IF Len(c) < 2 \/ c[2] \notin {"s", "d"} THEN {bad}
      ELSE IF Len(c) > 2
      THEN {FilterArg(c, IF c[3] = "=" THEN Tail_(c, 3) ELSE Tail_(c, 2), filt, 1)}
      ELSE {bad} \cup (IF more THEN {FilterArg(c, d, filt, 2) : d \in next}
                       ELSE {})

\* FilterBefore with pci_filter_init called in every state
FilterBeforeFresh(st, filt) == pci_filter_init

\* pci_filter_init(pacc, &filter) unless state is STATE_GOT_FILTER
FilterBefore(st, filt) == IF st # "GOT_FILTER" THEN pci_filter_init ELSE filt

\* parse_ops, one iteration with *c == '-'
ParseFilterTok(Toks, Max) ==
  /\ pc = "parse"
  /\ argi < Max
  /\ \E c \in Toks :
       /\ c[1] = "-"
       /\ \E r \in parse_filter(c, FilterBefore(state, filter), Toks, argi + 2 <= Max) :
            /\ argi' = argi + r.words
            /\ filter' = r.filter
            /\ IF r.res = "ok"
               THEN /\ state' = "GOT_FILTER"
                    /\ run' = Append(run, [opt |-> r.opt, arg |-> r.arg])
                    /\ UNCHANGED <<pc, err>>
               ELSE /\ Exit(r.res, r.msg, c)
                    /\ UNCHANGED <<state, run>>
  /\ UNCHANGED <<ulb, demo_mode, force, vectors, selected_devices, ops, writeable,
                 warnings, vecRun, opWords>>
  /\ UNCHANGED execVars

\* parse_ops, one iteration with *c != '-'
ParseOpTok(Toks, Max) ==
  /\ pc = "parse"
  /\ argi < Max
  /\ argi' = argi + 1
  /\ \E c \in Toks :
       /\ c[1] # "-"
       /\ IF state = "INIT"
          THEN /\ Exit("usage", "", c)
               /\ UNCHANGED <<state, vectors, selected_devices, ops, warnings, run, vecRun,
                               opWords>>
          ELSE
            LET fresh == state = "GOT_FILTER"
                vs == IF fresh THEN Append(vectors, select_devices(filter)) ELSE vectors
                sel == IF fresh THEN Len(vs) ELSE selected_devices
            IN  /\ vectors' = vs
                /\ selected_devices' = sel
                /\ vecRun' = IF fresh THEN Append(vecRun, run) ELSE vecRun
                /\ warnings' = IF vs[sel] = <<>> /\ ~ force THEN warnings + 1 ELSE warnings
                /\ \E o \in parse_op(c, sel, ulb) :
                     IF o.res = "ok"
                     THEN /\ ops' = ops \o o.op
                          /\ opWords' = Append(opWords, c)
                          /\ state' = "GOT_OP"
                          /\ run' = <<>>
                          /\ UNCHANGED <<pc, err>>
                     ELSE /\ Exit(o.res, o.msg, c)
                          /\ UNCHANGED <<ops, opWords, state, run>>
  /\ UNCHANGED <<ulb, demo_mode, force, filter, writeable>>
  /\ UNCHANGED execVars

\* scan_ops: some operation writes
scan_ops(l) == \E i \in 1..Len(l) : l[i].num_values # 0

\* NothingSpecified without the test at the end of parse_ops
NothingSpecifiedNever(st) == FALSE

\* if (state == STATE_INIT) at the end of parse_ops
NothingSpecified(st) == st = "INIT"

\* parse_ops at i == argc, then scan_ops and the entry into execute
ParseEnd ==
  /\ pc = "parse"
  /\ IF NothingSpecified(state)
     THEN /\ Exit("usage", "No operation specified", <<>>)
          /\ UNCHANGED <<writeable, cur>>
     ELSE /\ writeable' = scan_ops(ops)
          /\ cur' = EnterGroup(ops, vectors, 1)
          /\ pc' = IF cur'.op > Len(ops) THEN "done" ELSE "exec"
          /\ err' = err
  /\ UNCHANGED <<ulb, demo_mode, force, mem, calls, log>>
  /\ UNCHANGED parseVars

\* exec_op came back to execute: no die() ended the process inside it
\* ExecReturned where die() returns to execute
ExecReturnedAlways(r) == TRUE

ExecReturned(r) == r.res = "ok"

\* execute: one exec_op call and the loop control up to the next one
ExecOp ==
  /\ pc = "exec"
  /\ LET o == ops[cur.oops]
         dev == vectors[ops[cur.op].dev_vector][cur.pdev]
         r == exec_op(o, cur.oops, dev, mem, log, demo_mode)
     IN  /\ mem' = r.mem
         /\ log' = r.log
         /\ calls' = Append(calls, [dev |-> dev, op |-> cur.oops])
         /\ IF ExecReturned(r)
            THEN /\ cur' = NextCall(ops, vectors, cur)
                 /\ pc' = IF cur'.op > Len(ops) THEN "done" ELSE "exec"
                 /\ err' = err
            ELSE /\ Exit(r.res, r.msg, <<>>)
                 /\ cur' = cur
  /\ UNCHANGED <<ulb, demo_mode, force, writeable>>
  /\ UNCHANGED parseVars

(***************************************************************************)
(* Specifications.  Spec draws the command tail from every word of the     *)
(* model, on ILP32 and LP64 builds, without -D and -f.  SpecExec draws     *)
(* longer tails from the words that parse_op accepts, with and without -D  *)
(* and -f, so that several groups of operations are executed; none of its  *)
(* words holds a literal whose parsing depends on the build.               *)
(***************************************************************************)
Init == InitOn({4, 8})

Next ==
  \/ ParseOptions({FALSE})
  \/ ParseFilterTok(AllTokens, MaxArgs)
  \/ ParseOpTok(AllTokens, MaxArgs)
  \/ ParseEnd
  \/ ExecOp

Spec == Init /\ [][Next]_vars

InitExec == InitOn({8})

NextExec ==
  \/ ParseOptions(BOOLEAN)
  \/ ParseFilterTok(ExecTokens, MaxExecArgs)
  \/ ParseOpTok(ExecTokens, MaxExecArgs)
  \/ ParseEnd
  \/ ExecOp

SpecExec == InitExec /\ [][NextExec]_vars


(***************************************************************************)
(* The order of execution stated on its own: the groups are the maximal    *)
(* runs of consecutive operations with the same device vector; for each    *)
(* group in list order, for each device of its vector in vector order,     *)
(* for each operation of the group in list order.                          *)
(***************************************************************************)
\* the last operation of the group that starts at a
RECURSIVE GroupEnd(_, _)
GroupEnd(l, a) ==
  IF a + 1 <= Len(l) /\ l[a + 1].dev_vector = l[a].dev_vector
  THEN GroupEnd(l, a + 1) ELSE a

\* the calls of one device for the operations a..b
CallsOfDev(dev, a, b) == [k \in 1..(b - a + 1) |-> [dev |-> dev, op |-> a + k - 1]]

RECURSIVE CallsOfGroup(_, _, _)
CallsOfGroup(vec, a, b) ==
  IF vec = <<>> THEN <<>>
  ELSE CallsOfDev(Head(vec), a, b) \o CallsOfGroup(Tail(vec), a, b)

RECURSIVE ExpectedFrom(_, _, _)
ExpectedFrom(l, vs, a) ==
  IF a > Len(l) THEN <<>>
  ELSE CallsOfGroup(vs[l[a].dev_vector], a, GroupEnd(l, a))
         \o ExpectedFrom(l, vs, GroupEnd(l, a) + 1)

ExpectedCalls == ExpectedFrom(ops, vectors, 1)

\* the (device, operation) of the events of a log, a run of events of the
\* same call counted once
RECURSIVE CallsIn(_)
CallsIn(lg) ==
  IF lg = <<>> THEN <<>>
  ELSE LET rest == CallsIn(Tail(lg))
           c == [dev |-> Head(lg).dev, op |-> Head(lg).op]
       IN  IF rest # <<>> /\ Head(rest) = c THEN rest ELSE <<c>> \o rest

IsPrefix(a, b) == Len(a) <= Len(b) /\ SubSeq(b, 1, Len(a)) = a

\* C1: when execute has returned, the exec_op calls made, and the events
\* they logged, are in the order: groups of consecutive operations with the
\* same device vector in list order, devices in vector order, the group's
\* operations in list order.
C1_ExecutionOrder ==
  pc = "done" => /\ calls = ExpectedCalls
                 /\ CallsIn(log) = calls

\* the example of the claim: [opA(g1), opB(g1), opC(g2)] with two devices in g1
C1_Witness ==
  /\ pc = "done"
  /\ Len(ops) = 3
  /\ ops[1].dev_vector = ops[2].dev_vector
  /\ ops[3].dev_vector # ops[1].dev_vector
  /\ Len(vectors[ops[1].dev_vector]) = 2
  /\ vectors[ops[3].dev_vector] # <<>>
  /\ Len(calls) > 4


(***************************************************************************)
(* Claims about the masked write and about parsing.                        *)
(***************************************************************************)
\* the pair of the list that an event of a write operation belongs to
PairOf(e) == ops[e.op].values[e.k]

\* event p of the log is the write of a pair whose element carries a mask
\* that does not cover the operation's width
MaskedWriteAt(p) ==
  /\ log[p].kind = "write"
  /\ PairOf(log[p]).own
  /\ ~ CoversWidth(PairOf(log[p]).mask, log[p].width)

\* C2: a write with an explicit mask that does not cover the width hands the
\* write primitive (old & ~mask) | (value & mask), old being what was read at
\* the same address of the same device just before and value, mask the
\* literals of the argument; outside the mask the bits are those of old.
C2_MaskedWrite ==
  \A p \in 1..Len(log) :
    MaskedWriteAt(p) =>
      /\ p >= 3
      /\ log[p - 2].kind = "read"
      /\ log[p - 2].dev = log[p].dev
      /\ log[p - 2].addr = log[p].addr
      /\ log[p - 2].width = log[p].width
      /\ log[p - 1].kind = "calc"
      /\ LET v == PairOf(log[p])
             old == log[p - 2].val
             w == log[p].width
         IN  /\ log[p].val = ConvW(OrW(AndW(old, NotW(v.mask)), AndW(v.lit, v.mask)), w)
             /\ log[p - 1].val = OrW(AndW(old, NotW(v.mask)), AndW(v.lit, v.mask))
             /\ AndW(log[p].val, ConvW(NotW(v.mask), w))
                  = AndW(ConvW(old, w), ConvW(NotW(v.mask), w))

\* a masked write whose value literal has bits outside its mask
C2_Witness ==
  \E p \in 1..Len(log) :
    /\ MaskedWriteAt(p)
    /\ log[p].width = 2
    /\ AndW(PairOf(log[p]).lit, PairOf(log[p]).mask) # PairOf(log[p]).lit

\* the run was ended while parse_ops was parsing
RejectedAtParse == err.at = "parse"

\* C3: while the arguments are parsed, and on every run in which an
\* argument was rejected, no register has been read or written and exec_op
\* has not been called.
C3_ParseBeforeExec ==
  (pc \in {"options", "parse"} \/ RejectedAtParse) =>
     /\ log = <<>>
     /\ calls = <<>>
     /\ mem = InitMem

\* "1000.B" rejected after a valid write was parsed for a non-empty vector
C3_Witness ==
  /\ pc = "exit"
  /\ RejectedAtParse
  /\ err.msg = "Register number out of range!"
  /\ Len(ops) >= 1
  /\ ops[1].num_values > 0
  /\ vectors[ops[1].dev_vector] # <<>>

\* max(1, num_values)
Accesses(o) == IF o.num_values = 0 THEN 1 ELSE o.num_values

\* C4: every operation of the list has offset < 0x1000 and
\* offset + width * max(1, num_values) <= 0x1000.
C4_RangeInvariant ==
  \A k \in 1..Len(ops) :
    /\ ops[k].addr >= 0
    /\ ops[k].addr < SpaceSize
    /\ ops[k].addr + ops[k].width * Accesses(ops[k]) <= SpaceSize

\* an operation with two values ending exactly at 0x1000 is in the list and
\* a later argument was rejected as out of range
C4_Witness ==
  /\ \E k \in 1..Len(ops) :
       /\ ops[k].num_values = 2
       /\ ops[k].addr + ops[k].width * 2 = SpaceSize
  /\ RejectedAtParse
  /\ err.msg = "Register number out of range!"

\* C5: every operation of the list has width 1, 2 or 4 and an offset (the
\* +offset suffix included) that is a multiple of the width.
C5_AlignmentInvariant ==
  \A k \in 1..Len(ops) :
    /\ ops[k].width \in {1, 2, 4}
    /\ ops[k].addr % ops[k].width = 0

\* an operation of width 4 with an offset suffix is in the list and a later
\* argument was rejected as unaligned, before any access
C5_Witness ==
  /\ \E k \in 1..Len(ops) : ops[k].width = 4 /\ ops[k].cap # 0 /\ ops[k].addr > 0
  /\ RejectedAtParse
  /\ err.msg = "Unaligned register address!"
  /\ log = <<>>


(***************************************************************************)
(* Claims about exec_op and execute.                                       *)
(***************************************************************************)
\* an event of a register access
IsAccess(e) == e.kind \in {"read", "write"}

\* the capability base exec_op finds for call c, 0 without a capability
BaseOf(c) == IF ops[c.op].cap # 0 THEN pci_find_cap(c.dev, ops[c.op].cap) ELSE 0

\* some access of call c would end beyond the register space
CallLeavesSpace(c) ==
  /\ BaseOf(c) >= 0
  /\ BaseOf(c) + ops[c.op].addr + ops[c.op].width * Accesses(ops[c.op]) > SpaceSize

\* the run was ended by die() in exec_op
AbortedInExec == pc = "exit" /\ err.at = "exec"

\* C6: every read and write of exec_op is at an address a with 0 <= a and
\* a + width <= 0x1000, a being capability base + stored offset + k*width;
\* a call that would go beyond ends the run with "Out of range", and the
\* access beyond is not issued.
C6_DynamicRange ==
  /\ \A p \in 1..Len(log) :
       IsAccess(log[p]) =>
         /\ log[p].addr >= 0
         /\ log[p].addr + log[p].width <= SpaceSize
         /\ log[p].addr = BaseOf([dev |-> log[p].dev, op |-> log[p].op])
                            + ops[log[p].op].addr
                            + (IF log[p].k = 0 THEN 0 ELSE log[p].k - 1) * log[p].width
  /\ \A q \in 1..Len(calls) :
       CallLeavesSpace(calls[q]) =>
         /\ q = Len(calls)
         /\ AbortedInExec
         /\ err.msg = "Out of range"

\* the second value of a list is refused after the first was written to the
\* last four bytes of the space, behind a capability base
C6_Witness ==
  /\ AbortedInExec
  /\ err.msg = "Out of range"
  /\ \E p \in 1..Len(log) :
       /\ log[p].kind = "write"
       /\ log[p].addr + log[p].width = SpaceSize
       /\ ops[log[p].op].cap # 0
       /\ log[p].dev = calls[Len(calls)].dev
       /\ log[p].op = calls[Len(calls)].op

\* the calls cs[q..] made one after the other on register space m, up to
\* and including the first that does not return
RECURSIVE FoldExec(_, _, _, _)
FoldStep(cs, q, r) ==
  IF r.res = "ok" THEN FoldExec(cs, q + 1, r.mem, r.log)
  ELSE [failed |-> TRUE, at |-> q, mem |-> r.mem, log |-> r.log]

FoldExec(cs, q, m, lg) ==
  IF q > Len(cs) THEN [failed |-> FALSE, at |-> q, mem |-> m, log |-> lg]
  ELSE FoldStep(cs, q, exec_op(ops[cs[q].op], cs[q].op, cs[q].dev, m, lg, demo_mode))

\* the state agrees with the calls made so far, run in order from the
\* initial register space
AgreesWith(f) ==
  /\ mem = f.mem
  /\ log = f.log
  /\ f.failed <=> AbortedInExec
  /\ f.failed => /\ f.at = Len(calls)
                 /\ err.how = "die"
                 /\ err.msg \in {"Capability not found", "Out of range",
                                 "Unaligned read", "Unaligned write"}

\* C7: the calls made are a prefix of the execution order; the accesses
\* issued and the register space are those of these calls up to the first
\* one that fails, which is the last call made; nothing is undone and nothing
\* follows the failure.
C7_AbortNoRollback ==
  /\ pc \in {"exec", "done"} \/ AbortedInExec =>
       /\ IsPrefix(calls, ExpectedCalls)
       /\ AgreesWith(FoldExec(calls, 1, InitMem, <<>>))
  /\ AbortedInExec => calls # <<>>

\* the capability is absent on the second device after the write on the
\* first device was made, and that write is still in the register space
C7_Witness ==
  /\ AbortedInExec
  /\ err.msg = "Capability not found"
  /\ calls[Len(calls)].dev = 2
  /\ \E p \in 1..Len(log) : log[p].kind = "write" /\ log[p].dev = 1 /\ log[p].addr = 4
  /\ ByteAt(mem, 1, 4) = 162
  /\ Len(calls) < Len(ExpectedCalls)

\* event p is the value computed for a pair whose mask does not cover the
\* width
MaskedCalcAt(p) ==
  /\ log[p].kind = "calc"
  /\ ~ CoversWidth(PairOf(log[p]).mask, log[p].width)

\* C8: with demo_mode set no write is issued and the register space of every
\* device stays what it was; a masked value is still read and the value
\* that would be written is still computed from it.
C8_DemoNeverWrites ==
  demo_mode =>
    /\ mem = InitMem
    /\ \A p \in 1..Len(log) :
         /\ log[p].kind # "write"
         /\ MaskedCalcAt(p) =>
              /\ p >= 2
              /\ log[p - 1].kind = "read"
              /\ log[p - 1].dev = log[p].dev
              /\ log[p - 1].addr = log[p].addr
              /\ log[p].val = OrW(AndW(log[p - 1].val, NotW(PairOf(log[p]).mask)),
                                  AndW(PairOf(log[p]).lit, PairOf(log[p]).mask))

\* 04.B=02:0f in demo mode on the device whose byte 4 is 0xA5: 0xA2 is
\* computed and 0xA5 stays
C8_Witness ==
  /\ demo_mode
  /\ pc = "done"
  /\ ByteAt(mem, 1, 4) = 165
  /\ \E p \in 2..Len(log) :
       /\ log[p].kind = "calc"
       /\ log[p].dev = 1
       /\ log[p].addr = 4
       /\ log[p].val = <<162, 0, 0, 0>>
       /\ log[p - 1].kind = "read"
       /\ log[p - 1].val = <<165, 0, 0, 0>>


(***************************************************************************)
(* Claims about parse_ops.                                                 *)
(***************************************************************************)
\* parse_filter applied to a filter word that was accepted
ApplyWord(filt, w) ==
  IF w.opt = "s" THEN pci_filter_parse_slot(filt, w.arg).filter
  ELSE pci_filter_parse_id(filt, w.arg).filter

\* the filter words ws[k..] applied one after the other
RECURSIVE FoldWords(_, _, _)
FoldWords(ws, k, filt) ==
  IF k > Len(ws) THEN filt ELSE FoldWords(ws, k + 1, ApplyWord(filt, ws[k]))

\* the last word of a run of filter words
LastWord(ws) == ws[Len(ws)]

\* C9, as stated: every vector is what the most recent filter word alone
\* selects, starting from an empty filter.
C9_LastFilterOnly ==
  \A v \in 1..Len(vectors) :
    vectors[v] = select_devices(ApplyWord(pci_filter_init, LastWord(vecRun[v])))

\* C9, amended: a filter word that arrives in INIT or GOT_OP starts from an
\* empty filter, one that arrives in GOT_FILTER refines the filter of the
\* filter words directly before it; every vector is what the whole run of
\* consecutive filter words before its first operation selects.
C9_FilterRun ==
  /\ state = "GOT_FILTER" => /\ run # <<>>
                             /\ filter = FoldWords(run, 1, pci_filter_init)
  /\ state = "GOT_OP" => run = <<>>
  /\ Len(vecRun) = Len(vectors)
  /\ \A v \in 1..Len(vectors) :
       /\ vecRun[v] # <<>>
       /\ vectors[v] = select_devices(FoldWords(vecRun[v], 1, pci_filter_init))

\* two filter words before an operation select what neither selects alone,
\* and a later filter word after an operation starts afresh
C9_Witness ==
  /\ Len(vectors) = 2
  /\ Len(vecRun[1]) = 2
  /\ vecRun[1][1].opt = "s"
  /\ vecRun[1][2].opt = "d"
  /\ vectors[1] # select_devices(ApplyWord(pci_filter_init, LastWord(vecRun[1])))
  /\ vectors[1] # select_devices(ApplyWord(pci_filter_init, vecRun[1][1]))
  /\ vectors[1] # <<>>
  /\ Len(vecRun[2]) = 1
  /\ vectors[2] = select_devices(ApplyWord(pci_filter_init, vecRun[2][1]))
  /\ \E k \in 1..Len(ops) : ops[k].dev_vector = 1
  /\ \E k \in 1..Len(ops) : ops[k].dev_vector = 2

\* the moves of the parser state
StateMoves ==
  {<<"INIT", "GOT_FILTER">>, <<"GOT_FILTER", "GOT_OP">>, <<"GOT_OP", "GOT_FILTER">>}

\* the word that ended the run, if any, is not a filter word
NoFilterWord(w) == w = <<>> \/ w[1] # "-"

\* C10: in state INIT no operation is in the list and no register was
\* accessed; from INIT the parser goes to GOT_FILTER by a filter word or the
\* run ends; a run ended in INIT by a word that is no filter word, or by the
\* end of the words ("No operation specified"), is ended by usage(); the
\* state moves only INIT -> GOT_FILTER -> GOT_OP -> GOT_FILTER.
C10_StateMachine ==
  /\ [](state = "INIT" => /\ ops = <<>>
                          /\ vectors = <<>>
                          /\ log = <<>>
                          /\ calls = <<>>
                          /\ mem = InitMem
                          /\ pc \in {"options", "parse", "exit"})
  /\ [](pc = "exit" /\ state = "INIT" /\ NoFilterWord(err.word) =>
          /\ err.how = "usage"
          /\ err.word = <<>> => err.msg = "No operation specified")
  /\ [][state = "INIT" /\ pc = "parse" =>
          \/ state' = "GOT_FILTER" /\ pc' = "parse"
          \/ state' = "INIT" /\ pc' = "exit"]_vars
  /\ [][state' # state => <<state, state'>> \in StateMoves]_vars

\* a word that is no filter word ended the run in INIT
C10_Witness ==
  /\ pc = "exit"
  /\ state = "INIT"
  /\ err.how = "usage"
  /\ err.word # <<>>
  /\ err.word[1] # "-"
  /\ ops = <<>>


(***************************************************************************)
(* Claims about select_devices and empty selections.                       *)
(***************************************************************************)
\* the filter select_devices was called with for vector v
FilterOf(v) == FoldWords(vecRun[v], 1, pci_filter_init)

\* C11: every vector holds a device of the device list iff the filter
\* matches it, each once and in the order of the device list; the NULL
\* after the last device is inside the array that was allocated.
C11_SelectDevices ==
  \A v \in 1..Len(vectors) :
    /\ \A z \in 1..Len(DevList) :
         (\E a \in 1..Len(vectors[v]) : vectors[v][a] = z) <=> pci_filter_match(FilterOf(v), z)
    /\ \A a \in 1..Len(vectors[v]) : vectors[v][a] \in 1..Len(DevList)
    /\ \A a, b \in 1..Len(vectors[v]) : a < b => vectors[v][a] < vectors[v][b]
    /\ Len(vectors[v]) + 1 = CountFrom(FilterOf(v), 1)

\* a vector of the second and third device, the first one not matching
C11_Witness ==
  \E v \in 1..Len(vectors) :
    /\ vectors[v] = <<2, 3>>
    /\ ~ pci_filter_match(FilterOf(v), 1)


\* SpecEmpty: command tails with filters that select no device, with and
\* without -f
NextEmpty ==
  \/ ParseOptions(BOOLEAN)
  \/ ParseFilterTok(EmptyTokens, MaxExecArgs)
  \/ ParseOpTok(EmptyTokens, MaxExecArgs)
  \/ ParseEnd
  \/ ExecOp

SpecEmpty == InitExec /\ [][NextEmpty]_vars

\* the operations bound to an empty vector
OnNoDevice == {k \in 1..Len(ops) : vectors[ops[k].dev_vector] = <<>>}

\* the calls of exec_op for operation k on device d
CallsFor(k, d) == {q \in 1..Len(calls) : calls[q] = [dev |-> d, op |-> k]}

\* C12: a filter that selects no device ends nothing: one warning per
\* operation word parsed for it unless -f is given, no exec_op call and no
\* register access for its operations, the operations of the other groups
\* called once on each of their devices, and main returning 0.
C12_EmptySelection ==
  /\ pc \in {"exec", "done"} =>
       warnings = IF force THEN 0 ELSE Cardinality(OnNoDevice)
  /\ \A k \in OnNoDevice :
       /\ \A q \in 1..Len(calls) : calls[q].op # k
       /\ \A p \in 1..Len(log) : log[p].op # k
  /\ pc = "done" =>
       /\ err = NoError
       /\ \A k \in 1..Len(ops) :
            \A a \in 1..Len(vectors[ops[k].dev_vector]) :
              Cardinality(CallsFor(k, vectors[ops[k].dev_vector][a])) = 1
  /\ AbortedInExec => calls[Len(calls)].op \notin OnNoDevice

\* BASE_ADDRESS_0.L=10000000 and CAP_PM+4.W on no device, warned about, then
\* a read on the devices of bus 0, and main returns
C12_Witness ==
  /\ pc = "done"
  /\ ~ force
  /\ warnings = 2
  /\ Len(ops) = 3
  /\ ops[1].num_values = 1
  /\ ops[2].cap # 0
  /\ OnNoDevice = {1, 2}
  /\ vectors[ops[3].dev_vector] = <<1, 2>>
  /\ Len(log) = 2
  /\ mem = InitMem


(***************************************************************************)
(* Claims about the value list.                                            *)
(***************************************************************************)
\* the pairs of the list whose element holds no ':' part: parse_x32
\* consumed the element completely
PlainPairs ==
  UNION {{<<k, j>> : j \in {a \in 1..ops[k].num_values : ~ ops[k].values[a].own}} :
           k \in 1..Len(ops)}

\* the events of the pair j of operation k
EventsOf(k, j) == {p \in 1..Len(log) : log[p].op = k /\ log[p].k = j}

\* the word "COMMAND=0006"
CommandWord == <<"C", "O", "M", "M", "A", "N", "D", "=", "0", "0", "0", "6">>

\* C13: an element without a ':' part is accepted, its pair is stored with a
\* mask covering the operation's width, and it is written as the value
\* given, with no read of the register before.
C13_PlainValue ==
  /\ state # "INIT" => err.word # CommandWord
  /\ \A kj \in PlainPairs :
       /\ CoversWidth(ops[kj[1]].values[kj[2]].mask, ops[kj[1]].width)
       /\ \A p \in EventsOf(kj[1], kj[2]) :
            /\ log[p].kind # "read"
            /\ log[p].kind = "write" =>
                 log[p].val = ConvW(ops[kj[1]].values[kj[2]].lit, log[p].width)

\* x <= y for unsigned words
LeW(x, y) == ~ LtU(y, x)

\* x passed the test of l.601 and l.608 for the width: it is at most
\* max_values[width], or not below ~0UL - max_values[width], which a 32-bit
\* number can only be where unsigned long has 32 bits
PassedWindow(x, width) ==
  \/ LeW(x, max_values(width))
  \/ ulb = 4 /\ LeW(SubFromOnes(4, max_values(width)), x)

\* all the stored pairs, each with the width of its operation
StoredPairs ==
  UNION {{[v |-> ops[k].values[a], width |-> ops[k].width] : a \in 1..ops[k].num_values} :
           k \in 1..Len(ops)}

\* C14, as stated: every stored value and every stored mask is at most
\* max_values[width], the masks that were omitted included.
C14_ValueMaskBound ==
  \A s \in StoredPairs :
    /\ LeW(s.v.value, max_values(s.width))
    /\ LeW(s.v.mask, max_values(s.width))

\* C14, amended: every stored mask is 0xffffffff (the default of l.614) or
\* a number that passed the range test; every stored value is a literal
\* that passed the range test, ANDed with the mask if one was parsed; what
\* is handed to a write is at most max_values[width].
C14_StoredPairBound ==
  /\ \A s \in StoredPairs :
       /\ s.v.mask = OnesW(4) \/ PassedWindow(s.v.mask, s.width)
       /\ PassedWindow(s.v.lit, s.width)
       /\ s.v.value \in {s.v.lit, AndW(s.v.lit, s.v.mask)}
       /\ s.v.own => s.v.value = AndW(s.v.lit, s.v.mask)
  /\ \A p \in 1..Len(log) :
       log[p].kind = "write" => LeW(log[p].val, max_values(log[p].width))

\* on a build with a 32-bit unsigned long: a byte operation with a stored
\* mask in the negative window, written to the register as a byte
C14_Witness ==
  /\ ulb = 4
  /\ \E s \in StoredPairs :
       /\ s.width = 1
       /\ s.v.own
       /\ s.v.mask = <<15, 255, 255, 255>>
  /\ \E p \in 1..Len(log) : log[p].kind = "write" /\ log[p].width = 1

(***************************************************************************)
(* Claims about the +offset suffix.                                        *)
(***************************************************************************)
\* the parts parse_op splits the word c into
BeforeCh(str, ch) == IF strchr(str, ch) > 0 THEN Head_(str, strchr(str, ch)) ELSE str
AfterCh(str, ch) == IF strchr(str, ch) > 0 THEN Tail_(str, strchr(str, ch)) ELSE <<>>
RegPart(c) == BeforeCh(BeforeCh(c, "="), ".")
BasePart(c) == BeforeCh(RegPart(c), "+")
OffsetPart(c) == AfterCh(RegPart(c), "+")

\* base + off >= 0x1000 as unbounded integers, for 32-bit base and off < 0x1000
SumLeavesSpace(base, off) ==
  \/ ~ LtW(base, FromInt(SpaceSize))
  \/ ToInt(base) + ToInt(off) >= SpaceSize

\* the word c has a pure hexadecimal base and a suffix in [0, 0x1000) whose
\* sum is >= 0x1000
WordLeavesSpace(c) ==
  /\ strchr(RegPart(c), "+") > 0
  /\ parse_x32(BasePart(c), ulb).ret > 0
  /\ parse_x32(OffsetPart(c), ulb).ret > 0
  /\ LtW(parse_x32(OffsetPart(c), ulb).resp, FromInt(SpaceSize))
  /\ SumLeavesSpace(parse_x32(BasePart(c), ulb).resp, parse_x32(OffsetPart(c), ulb).resp)

\* C15: no operation of the list comes from a word whose hexadecimal base
\* plus suffix, as unbounded integers, is >= 0x1000.
C15_SuffixSum ==
  \A k \in 1..Len(opWords) : ~ WordLeavesSpace(opWords[k])

(***************************************************************************)
(* Claims about the loop over the values in exec_op.                       *)
(***************************************************************************)
\* events p and r belong to the same pair of the same exec_op call
SamePair(p, r) ==
  /\ log[p].dev = log[r].dev
  /\ log[p].op = log[r].op
  /\ log[p].k = log[r].k

\* the pair of event p needs the register read: its mask does not cover
\* the width
NeedsRead(p) == ~ CoversWidth(PairOf(log[p]).mask, log[p].width)

\* the call q of exec_op returned
Returned(q) == q < Len(calls) \/ ~ AbortedInExec

\* the writes of pair j in call c
WritesOf(c, j) ==
  {p \in 1..Len(log) : /\ log[p].kind = "write" /\ log[p].dev = c.dev
                       /\ log[p].op = c.op /\ log[p].k = j}

\* C16: the k-th pair of an operation with values is applied at effective
\* address + k*width (k from 0), the pairs in increasing k, a masked pair's
\* read directly before its value is computed and written, an unmasked pair
\* without a read; two pairs of one call never share an address, and a call
\* that returns has written every pair once.
C16_ValueLoop ==
  /\ \A p \in 1..Len(log) :
       log[p].k >= 1 =>
         /\ log[p].addr = BaseOf([dev |-> log[p].dev, op |-> log[p].op])
                            + ops[log[p].op].addr + (log[p].k - 1) * log[p].width
         /\ log[p].kind = "write" =>
              /\ p >= 2 /\ log[p - 1].kind = "calc" /\ SamePair(p, p - 1)
              /\ IF NeedsRead(p)
                 THEN p >= 3 /\ log[p - 2].kind = "read" /\ SamePair(p, p - 2)
                      /\ log[p - 2].addr = log[p].addr
                 ELSE p >= 3 => ~ (log[p - 2].kind = "read" /\ SamePair(p, p - 2))
         /\ log[p].kind = "read" => NeedsRead(p) /\ p < Len(log)
                                    /\ log[p + 1].kind = "calc" /\ SamePair(p, p + 1)
  /\ \A p, r \in 1..Len(log) :
       (p < r /\ log[p].dev = log[r].dev /\ log[p].op = log[r].op) =>
         /\ log[p].k <= log[r].k
         /\ log[p].k # log[r].k => log[p].addr # log[r].addr
  /\ \A q \in 1..Len(calls) :
       (Returned(q) /\ ~ demo_mode) =>
         \A j \in 1..ops[calls[q].op].num_values : Cardinality(WritesOf(calls[q], j)) = 1

\* ffe.B=5:3,2:c on a device: the first pair read and written at 0xffe,
\* then the second at 0xfff
C16_Witness ==
  \E p \in 1..Len(log) :
    /\ p + 5 <= Len(log)
    /\ log[p].kind = "read" /\ log[p].k = 1 /\ log[p].addr = 4094
    /\ log[p + 2].kind = "write" /\ log[p + 2].k = 1 /\ log[p + 2].addr = 4094
    /\ log[p + 3].kind = "read" /\ log[p + 3].k = 2 /\ log[p + 3].addr = 4095
    /\ log[p + 5].kind = "write" /\ log[p + 5].k = 2 /\ log[p + 5].addr = 4095
    /\ log[p + 5].dev = log[p].dev

(***************************************************************************)
(* Claims about the alignment of the effective address.                    *)
(***************************************************************************)
\* SpecAlign: command tails on a capability that is at an odd address on
\* device 1 and at an address that is no multiple of 4 on device 2
NextAlign ==
  \/ ParseOptions(BOOLEAN)
  \/ ParseFilterTok(AlignTokens, MaxExecArgs)
  \/ ParseOpTok(AlignTokens, MaxExecArgs)
  \/ ParseEnd
  \/ ExecOp

SpecAlign == InitExec /\ [][NextAlign]_vars

\* the effective address of call c is no multiple of the operation's width
Misaligned(c) ==
  /\ BaseOf(c) >= 0
  /\ (BaseOf(c) + ops[c.op].addr) % ops[c.op].width # 0

\* the register accesses of call c
AccessesOf(c) ==
  {p \in 1..Len(log) : IsAccess(log[p]) /\ log[p].dev = c.dev /\ log[p].op = c.op}

\* call c has to access a register: it reads, or writes outside demo mode,
\* or computes from a read
HasToAccess(c) ==
  \/ ops[c.op].num_values = 0
  \/ ~ demo_mode
  \/ \E j \in 1..ops[c.op].num_values :
       ~ CoversWidth(ops[c.op].values[j].mask, ops[c.op].width)

\* C17: no read and no write is issued at an address that is no multiple of
\* its width; a call whose effective address (capability base plus stored
\* offset) is no such multiple issues no access, and if it has one to make
\* it is the last call, ended by a fatal error.
C17_UnalignedAtExec ==
  /\ \A p \in 1..Len(log) : IsAccess(log[p]) => log[p].addr % log[p].width = 0
  /\ \A q \in 1..Len(calls) :
       Misaligned(calls[q]) =>
         /\ AccessesOf(calls[q]) = {}
         /\ HasToAccess(calls[q]) =>
              /\ q = Len(calls)
              /\ AbortedInExec
              /\ err.how = "die"
              /\ err.msg \in {"Unaligned read", "Unaligned write"}

\* a masked 16-bit write was made at the aligned address of device 2, then
\* the run was ended at a 16-bit read at an odd address of device 1
C17_Witness ==
  /\ AbortedInExec
  /\ err.msg = "Unaligned read"
  /\ Misaligned(calls[Len(calls)])
  /\ calls[Len(calls)].dev = 1
  /\ ops[calls[Len(calls)].op].width = 2
  /\ \E p \in 1..Len(log) :
       log[p].kind = "write" /\ log[p].dev = 2 /\ log[p].addr = 100 /\ log[p].width = 2

(***************************************************************************)
(* Claims about literals.                                                  *)
(***************************************************************************)
\* the elements of a value list, split at the commas
RECURSIVE ElemsOf(_)
ElemsOf(value) ==
  IF strchr(value, ",") = 0 THEN <<value>>
  ELSE <<Head_(value, strchr(value, ","))>> \o ElemsOf(Tail_(value, strchr(value, ",")))

\* the value list of the word c, empty if it has none
ValueList(c) == IF strchr(c, "=") > 0 THEN ElemsOf(AfterCh(c, "=")) ELSE <<>>

\* the value part of an element: what stands before its ':'
ValuePart(elem) == BeforeCh(elem, ":")

\* C18: parse_x32 fails on a string without a digit, so no operation of the
\* list comes from a word with an element whose value part is empty, such
\* as ":0f".
C18_NoDigitsRejected ==
  \A k \in 1..Len(opWords) :
    \A a \in 1..Len(ValueList(opWords[k])) :
      ValuePart(ValueList(opWords[k])[a]) # <<>>

\* the width parse_op gives the operation of the word c
WidthOfWord(c) ==
  parse_register(IF strchr(BeforeCh(c, "="), ".") > 0
                 THEN WidthOf(AfterCh(BeforeCh(c, "="), ".")) ELSE 0,
                 BasePart(c), ulb).width

\* lim < v < 0xFFFFFFFF - lim for the width's lim
StrictlyBetween(v, width) ==
  /\ LtW(max_values(width), v)
  /\ LtW(v, SubFromOnes(4, max_values(width)))

\* the literals of the value parts, and of the mask parts, of the word c
ValueLiterals(c) ==
  {parse_x32(ValuePart(ValueList(c)[a]), ulb).resp : a \in 1..Len(ValueList(c))}
MaskLiterals(c) ==
  {parse_x32(AfterCh(ValueList(c)[a], ":"), ulb).resp :
     a \in {b \in 1..Len(ValueList(c)) : strchr(ValueList(c)[b], ":") > 0}}

\* C19: on every build a literal is accepted if it is <= lim or
\* >= 0xFFFFFFFF - lim, and a word is rejected as out of range only for a
\* literal with lim < v < 0xFFFFFFFF - lim.
C19_SameWindowOnEveryBuild ==
  /\ \A s \in StoredPairs :
       /\ ~ StrictlyBetween(s.v.lit, s.width)
       /\ s.v.own => ~ StrictlyBetween(s.v.mask, s.width)
  /\ (pc = "exit" /\ err.msg = "Value is out of range") =>
       \E v \in ValueLiterals(err.word) : StrictlyBetween(v, WidthOfWord(err.word))
  /\ (pc = "exit" /\ err.msg = "Mask is out of range") =>
       \E v \in MaskLiterals(err.word) : StrictlyBetween(v, WidthOfWord(err.word))

(***************************************************************************)
(* Termination of execute.  main is one thread that runs to its end, so    *)
(* a call of exec_op that is due is eventually made: SpecTerm is the runs  *)
(* of the words of TermTokens, up to MaxTermArgs of them, under weak       *)
(* fairness of the step of execute.                                        *)
(***************************************************************************)
NextTerm ==
  \/ ParseOptions(BOOLEAN)
  \/ ParseFilterTok(TermTokens, MaxTermArgs)
  \/ ParseOpTok(TermTokens, MaxTermArgs)
  \/ ParseEnd
  \/ ExecOp

SpecTerm == InitExec /\ [][NextTerm]_vars /\ WF_vars(ExecOp)

\* the vector of operation k
VectorOf(k) == vectors[ops[k].dev_vector]

\* device d is in the vector of operation k
InVector(d, k) == \E a \in 1..Len(VectorOf(k)) : VectorOf(k)[a] = d

\* C20: once in execute, main comes to its end; exec_op is only called for
\* a device of the operation's vector, never twice for the same operation
\* and device, and when execute has returned it has been called once for
\* every operation and every device of its vector.
C20_ExecuteTerminates ==
  /\ (pc = "exec") ~> (pc \in {"done", "exit"})
  /\ [](\A q \in 1..Len(calls) :
          /\ InVector(calls[q].dev, calls[q].op)
          /\ Cardinality(CallsFor(calls[q].op, calls[q].dev)) = 1)
  /\ [](pc = "done" =>
          \A k \in 1..Len(ops) :
            \A a \in 1..Len(VectorOf(k)) : Cardinality(CallsFor(k, VectorOf(k)[a])) = 1)

\* execute has returned after a group on no device and a group of one
\* operation on two devices, with the two calls of exec_op made
C20_Witness ==
  /\ pc = "done"
  /\ Len(ops) = 2
  /\ Len(calls) = 2
  /\ VectorOf(1) = <<>>
  /\ Len(VectorOf(2)) = 2

=============================================================================
